---- MODULE Spec2Model ----
(***************************************************************************)
(* Model of the Minesweeper rules engine, src/src/Minesweeper.cpp:         *)
(* CMinesweeperCell and CMinesweeperGame.  One action per public           *)
(* operation; every private helper is an operator computed as the code     *)
(* computes it.  An internal_check that fails throws: the fields written   *)
(* before the throw keep their new values and the call's outcome is        *)
(* "throw".  The board is scaled down: Rows x Columns cells and at most    *)
(* MaxBombs mines stand for the 9..24 x 9..30 boards of the program; only  *)
(* SpecParams, which is about the limits themselves, uses boards of the    *)
(* program's size.                                                         *)
(***************************************************************************)
EXTENDS Integers, Sequences, FiniteSets, Bags, TLC

\* ---- bounds of the model ------------------------------------------------
Rows == 2
Columns == 3
MaxBombs == 2
\* Open / SetLabel / ModifiedCells calls explored after CreateGame, on every board
MaxOps == 2
\* the same calls explored on boards with a single bomb
DeepOps == 3
\* Open / ModifiedCells calls explored in rounds without SetLabel
OpenOps == 4
\* Open / SetLabel / ModifiedCells calls explored on boards of the program's size
ParamOps == 1
\* the board of the rounds that explore the orders of the flood, with its bombs
\* and the Open / SetLabel calls explored on it
FloodRows == 3
FloodColumns == 3
FloodBombs == 1
FloodOps == 3

VARIABLES
    state,                  \* CMinesweeperGame::state
    rows,                   \* CMinesweeperGame::rows
    columns,                \* CMinesweeperGame::columns
    bombs,                  \* CMinesweeperGame::bombs
    cells,                  \* CMinesweeperGame::cells, index -> cell record
    numberOfOpenedCells,    \* CMinesweeperGame::numberOfOpenedCells
    modifiedCellIndices,    \* CMinesweeperGame::modifiedCellIndices
    last,                   \* the last call: operation, arguments, outcome, result
    ops,                    \* Open / SetLabel / ModifiedCells calls still explored
    changed,                \* cells whose opened flag or label changed since the last drain
    restarted               \* RestartGame happened since the last drain / NewGame

vars == <<state, rows, columns, bombs, cells, numberOfOpenedCells,
          modifiedCellIndices, last, ops, changed, restarted>>

\* ---- enumerations ---------------------------------------------------------
TMinesweeperCellLabel == {"MCL_None", "MCL_Bomb", "MCL_Question"}

TMinesweeperGameState == {"MGS_Active", "MGS_Failure", "MGS_Success"}

\* ---- CMinesweeperCell -----------------------------------------------------
\* CMinesweeperCell::CMinesweeperCell
NewCell ==
    [isBomb |-> FALSE, isOpened |-> FALSE, label |-> "MCL_None",
     numberOfNeighborBombs |-> 0]

\* SetIsBomb that keeps the stored count
SetIsBombKeepCount(cell) ==
    [cell EXCEPT !.isBomb = TRUE]

\* CMinesweeperCell::SetIsBomb (the cell is closed whenever planting runs)
SetIsBomb(cell) ==
    [cell EXCEPT !.isBomb = TRUE, !.numberOfNeighborBombs = 0]

\* SetNumberOfNeighborBombs that leaves isBomb as it is
SetNumberOfNeighborBombsKeepsBomb(cell, n) ==
    [cell EXCEPT !.numberOfNeighborBombs = n]

\* CMinesweeperCell::SetNumberOfNeighborBombs
SetNumberOfNeighborBombs(cell, n) ==
    [cell EXCEPT !.isBomb = FALSE, !.numberOfNeighborBombs = n]

\* ---- execution record ------------------------------------------------------
\* The mutable part of the game while one call runs, with the call's outcome
\* and the bookkeeping of the worklist of openNeighbors:
\*   enq          how many times each index was inserted into `unprocessed`
\*   enqClosed    an index was inserted while its cell was still closed
\* and the order of the openings:
\*   hit          a bomb cell was opened during the call
\*   afterHit     a cell that is not a bomb was opened after a bomb cell
Exec(st, cs, n, m) ==
    [state |-> st, cells |-> cs, numberOfOpenedCells |-> n,
     modifiedCellIndices |-> m, outcome |-> "ok",
     enq |-> [i \in DOMAIN cs |-> 0], enqClosed |-> FALSE,
     hit |-> FALSE, afterHit |-> FALSE]

\* ---- CMinesweeperGame helpers ------------------------------------------------
\* CMinesweeperGame::findNeighbors, in the order of the push_back calls
findNeighbors(index, rs, cs) ==
    LET row == index \div cs
        column == index % cs
        top == row > 0
        bottom == row < (rs - 1)
        left == column > 0
        right == column < (cs - 1)
    IN  (IF top /\ left THEN <<index - cs - 1>> ELSE <<>>)
     \o (IF top THEN <<index - cs>> ELSE <<>>)
     \o (IF top /\ right THEN <<index - cs + 1>> ELSE <<>>)
     \o (IF left THEN <<index - 1>> ELSE <<>>)
     \o (IF right THEN <<index + 1>> ELSE <<>>)
     \o (IF bottom /\ left THEN <<index + cs - 1>> ELSE <<>>)
     \o (IF bottom THEN <<index + cs>> ELSE <<>>)
     \o (IF bottom /\ right THEN <<index + cs + 1>> ELSE <<>>)

NeighborSet(index, rs, cs) ==
    {findNeighbors(index, rs, cs)[k] : k \in 1..Len(findNeighbors(index, rs, cs))}

\* CMinesweeperGame::plantBomb: the for loop over the neighbors, from position k
RECURSIVE incrementNeighbors(_, _, _)
incrementNeighbors(cs, neighbors, k) ==
    IF k > Len(neighbors) THEN cs
    ELSE incrementNeighbors(
             [cs EXCEPT ![neighbors[k]] =
                 SetNumberOfNeighborBombs(@, @.numberOfNeighborBombs + 1)],
             neighbors, k + 1)

\* plantBomb without the loop over the neighbors
plantBombNoCounts(cs, index, rs, cls) ==
    [cs EXCEPT ![index] = SetIsBomb(@)]

\* CMinesweeperGame::plantBomb: the cell becomes a bomb, then every neighbor
\* gets SetNumberOfNeighborBombs(count + 1)
plantBomb(cs, index, rs, cls) ==
    incrementNeighbors([cs EXCEPT ![index] = SetIsBomb(@)],
                       findNeighbors(index, rs, cls), 1)

\* CMinesweeperGame::plantBombs.  `accepted` is the sequence of random indices
\* that passed the test !GetIsBomb(); a drawn index that is a bomb is drawn
\* again and changes nothing.  ok is FALSE when `accepted` could not have been
\* accepted in that order.
RECURSIVE plantBombs(_, _, _, _, _)
plantBombs(cs, accepted, k, rs, cls) ==
    IF k > Len(accepted) THEN [ok |-> TRUE, cells |-> cs]
    ELSE IF cs[accepted[k]].isBomb THEN [ok |-> FALSE, cells |-> cs]
    ELSE plantBombs(plantBomb(cs, accepted[k], rs, cls), accepted, k + 1, rs, cls)

\* CMinesweeperGame::OnModified
OnModified(e, index) ==
    IF e.state # "MGS_Active"
    THEN [e EXCEPT !.outcome = "throw"]
    ELSE [e EXCEPT !.modifiedCellIndices = @ \cup {index}]

\* InternalOpen that also forgets what the cell holds
InternalOpenForgets(e, index) ==
    IF ~e.cells[index].isOpened
    THEN OnModified([e EXCEPT !.cells[index].isOpened = TRUE,
                              !.cells[index].isBomb = FALSE,
                              !.cells[index].numberOfNeighborBombs = 0], index)
    ELSE e

\* CMinesweeperCell::InternalOpen
InternalOpen(e, index) ==
    IF ~e.cells[index].isOpened
    THEN OnModified([e EXCEPT !.cells[index].isOpened = TRUE,
                              !.hit = @ \/ e.cells[index].isBomb,
                              !.afterHit = @ \/ (e.hit /\ ~e.cells[index].isBomb)],
                    index)
    ELSE e

\* CMinesweeperGame::openBombs: the loop over the cells lo..hi in index order,
\* left when InternalOpen throws (the range is walked in halves, first the lower
\* one, so that the evaluation stays shallow on large boards)
RECURSIVE openBombsRange(_, _, _)
openBombsRange(e, lo, hi) ==
    IF e.outcome # "ok" \/ lo > hi THEN e
    ELSE IF lo = hi
    THEN IF e.cells[lo].isBomb THEN InternalOpen(e, lo) ELSE e
    ELSE openBombsRange(openBombsRange(e, lo, (lo + hi) \div 2),
                        ((lo + hi) \div 2) + 1, hi)

\* openBombs that sets the state and forgets the other bombs
openBombsStateOnly(e) == [e EXCEPT !.state = "MGS_Failure"]

\* CMinesweeperGame::openBombs
openBombs(e) ==
    LET e1 == openBombsRange(e, 0, Cardinality(DOMAIN e.cells) - 1)
    IN  IF e1.outcome # "ok" THEN e1 ELSE [e1 EXCEPT !.state = "MGS_Failure"]

\* open that does not count the cell it opened
openNoCount(e, index) ==
    LET cell == e.cells[index]
    IN  IF ~cell.isOpened /\ cell.label = "MCL_None"
        THEN LET e1 == InternalOpen(e, index)
             IN  IF e1.outcome # "ok" THEN [e |-> e1, result |-> FALSE]
                 ELSE IF cell.isBomb
                      THEN [e |-> openBombs(e1), result |-> FALSE]
                      ELSE [e |-> e1, result |-> TRUE]
        ELSE [e |-> e, result |-> TRUE]

\* CMinesweeperGame::open
open(e, index) ==
    LET cell == e.cells[index]
    IN  IF ~cell.isOpened /\ cell.label = "MCL_None"
        THEN LET e1 == InternalOpen(e, index)
             IN  IF e1.outcome # "ok" THEN [e |-> e1, result |-> FALSE]
                 ELSE IF cell.isBomb
                      THEN [e |-> openBombs(e1), result |-> FALSE]
                      ELSE [e |-> [e1 EXCEPT !.numberOfOpenedCells = @ + 1],
                            result |-> TRUE]
        ELSE [e |-> e, result |-> TRUE]

\* CMinesweeperGame::hasSuccess
hasSuccess(e, nBombs) ==
    LET numberOfSafeCells == Cardinality(DOMAIN e.cells) - nBombs
    IN  IF e.state # "MGS_Active"
        THEN [e |-> [e EXCEPT !.outcome = "throw"], result |-> FALSE]
        ELSE IF ~(e.numberOfOpenedCells <= numberOfSafeCells)
        THEN [e |-> [e EXCEPT !.outcome = "throw"], result |-> FALSE]
        ELSE IF e.numberOfOpenedCells = numberOfSafeCells
        THEN [e |-> [e EXCEPT !.state = "MGS_Success"], result |-> TRUE]
        ELSE [e |-> e, result |-> FALSE]

\* CalculateNumberOfNeighborCellsLabeledAsBombs that counts every labeled neighbor
CalculateNumberOfLabeledNeighborCells(cs, index, rs, cls) ==
    Cardinality({i \in NeighborSet(index, rs, cls) :
                    ~cs[i].isOpened /\ cs[i].label # "MCL_None"})

\* CMinesweeperGame::CalculateNumberOfNeighborCellsLabeledAsBombs
CalculateNumberOfNeighborCellsLabeledAsBombs(cs, index, rs, cls) ==
    Cardinality({i \in NeighborSet(index, rs, cls) :
                    ~cs[i].isOpened /\ cs[i].label = "MCL_Bomb"})

\* unprocessed.insert( neighborIndex )
Insert(e, index) ==
    [e EXCEPT !.enq[index] = @ + 1,
              !.enqClosed = @ \/ ~e.cells[index].isOpened]

\* CMinesweeperGame::openNeighbors: the for loop over the neighbors of the
\* popped index, from position k on.  returned: the function returned (a bomb
\* was opened) or an exception left it.
RECURSIVE visitNeighbors(_, _, _, _)
\* the for loop going on with the next neighbor after a bomb was opened
visitNeighborsNoReturn(e, unprocessed, neighbors, k) ==
    IF k > Len(neighbors)
    THEN [e |-> e, unprocessed |-> unprocessed, returned |-> FALSE]
    ELSE LET neighborIndex == neighbors[k]
         IN  IF e.cells[neighborIndex].isOpened
             THEN visitNeighbors(e, unprocessed, neighbors, k + 1)
             ELSE LET r == open(e, neighborIndex)
                  IN  IF r.e.outcome # "ok"
                      THEN [e |-> r.e, unprocessed |-> unprocessed, returned |-> TRUE]
                      ELSE IF r.result
                              /\ r.e.cells[neighborIndex].numberOfNeighborBombs = 0
                      THEN visitNeighbors(Insert(r.e, neighborIndex),
                                          unprocessed \cup {neighborIndex},
                                          neighbors, k + 1)
                      ELSE visitNeighbors(r.e, unprocessed, neighbors, k + 1)

visitNeighbors(e, unprocessed, neighbors, k) ==
    IF k > Len(neighbors)
    THEN [e |-> e, unprocessed |-> unprocessed, returned |-> FALSE]
    ELSE LET neighborIndex == neighbors[k]
         IN  IF e.cells[neighborIndex].isOpened
             THEN visitNeighbors(e, unprocessed, neighbors, k + 1)
             ELSE LET r == open(e, neighborIndex)
                  IN  IF ~r.result
                      THEN [e |-> r.e, unprocessed |-> unprocessed, returned |-> TRUE]
                      ELSE IF r.e.cells[neighborIndex].numberOfNeighborBombs = 0
                      THEN visitNeighbors(Insert(r.e, neighborIndex),
                                          unprocessed \cup {neighborIndex},
                                          neighbors, k + 1)
                      ELSE visitNeighbors(r.e, unprocessed, neighbors, k + 1)

OpenedSet(cs) == {i \in DOMAIN cs : cs[i].isOpened}

\* CMinesweeperGame::openNeighbors: the while loop.  *unprocessed.begin() of an
\* unordered_set is any element of it.  The result is the set of executions
\* the loop can end in; when the loop is back at a state (cells, unprocessed)
\* it was in before, it runs forever and the outcome is "hang".
RECURSIVE openNeighborsLoop(_, _, _, _, _)
\* the loop forgetting the indices that waited in the worklist beside the popped
openNeighborsLoopDropsRest(e, unprocessed, seen, rs, cls) ==
    IF unprocessed = {} THEN {e}
    ELSE IF <<OpenedSet(e.cells), unprocessed>> \in seen
    THEN {[e EXCEPT !.outcome = "hang"]}
    ELSE UNION {
        LET r == visitNeighbors(e, {}, findNeighbors(current, rs, cls), 1)
        IN  IF r.returned THEN {r.e}
            ELSE openNeighborsLoop(r.e, r.unprocessed,
                     seen \cup {<<OpenedSet(e.cells), unprocessed>>}, rs, cls)
        : current \in unprocessed }

openNeighborsLoop(e, unprocessed, seen, rs, cls) ==
    IF unprocessed = {} THEN {e}
    ELSE IF <<OpenedSet(e.cells), unprocessed>> \in seen
    THEN {[e EXCEPT !.outcome = "hang"]}
    ELSE UNION {
        LET r == visitNeighbors(e, unprocessed \ {current},
                                findNeighbors(current, rs, cls), 1)
        IN  IF r.returned THEN {r.e}
            ELSE openNeighborsLoop(r.e, r.unprocessed,
                     seen \cup {<<OpenedSet(e.cells), unprocessed>>}, rs, cls)
        : current \in unprocessed }

openNeighbors(e, index, rs, cls) ==
    openNeighborsLoop(Insert(e, index), {index}, {}, rs, cls)

\* OnOpen without the check state == MGS_Active
OnOpenAnyState(e, index, rs, cls, nBombs) ==
    IF e.cells[index].isOpened
    THEN IF e.cells[index].numberOfNeighborBombs
              = CalculateNumberOfNeighborCellsLabeledAsBombs(e.cells, index, rs, cls)
         THEN openNeighbors(e, index, rs, cls)
         ELSE {e}
    ELSE LET r == open(e, index)
         IN  IF ~r.result THEN {r.e}
             ELSE LET h == hasSuccess(r.e, nBombs)
                  IN  IF h.e.outcome # "ok" THEN {h.e}
                      ELSE IF ~h.result
                              /\ h.e.cells[index].numberOfNeighborBombs = 0
                      THEN openNeighbors(h.e, index, rs, cls)
                      ELSE {h.e}

\* OnOpen that opens the neighbors whatever the stored count of the cell is
OnOpenAlwaysFloods(e, index, rs, cls, nBombs) ==
    IF e.state # "MGS_Active" THEN {[e EXCEPT !.outcome = "throw"]}
    ELSE IF e.cells[index].isOpened
    THEN IF e.cells[index].numberOfNeighborBombs
              = CalculateNumberOfNeighborCellsLabeledAsBombs(e.cells, index, rs, cls)
         THEN openNeighbors(e, index, rs, cls)
         ELSE {e}
    ELSE LET r == open(e, index)
         IN  IF ~r.result THEN {r.e}
             ELSE LET h == hasSuccess(r.e, nBombs)
                  IN  IF h.e.outcome # "ok" THEN {h.e}
                      ELSE IF ~h.result
                      THEN openNeighbors(h.e, index, rs, cls)
                      ELSE {h.e}

\* CMinesweeperGame::OnOpen: the executions the call can end in
OnOpen(e, index, rs, cls, nBombs) ==
    IF e.state # "MGS_Active" THEN {[e EXCEPT !.outcome = "throw"]}
    ELSE IF e.cells[index].isOpened
    THEN IF e.cells[index].numberOfNeighborBombs
              = CalculateNumberOfNeighborCellsLabeledAsBombs(e.cells, index, rs, cls)
         THEN openNeighbors(e, index, rs, cls)
         ELSE {e}
    ELSE LET r == open(e, index)
         IN  IF ~r.result THEN {r.e}
             ELSE LET h == hasSuccess(r.e, nBombs)
                  IN  IF h.e.outcome # "ok" THEN {h.e}
                      ELSE IF ~h.result
                              /\ h.e.cells[index].numberOfNeighborBombs = 0
                      THEN openNeighbors(h.e, index, rs, cls)
                      ELSE {h.e}

\* ---- the last call -----------------------------------------------------------
NoIndex == 0 - 1

\* again: the call is a ModifiedCells directly after another ModifiedCells
\* from:  the state of the game when the call was made
\* args:  the parameters of NewGame( rows, columns, bombs )
\* flag, number: the value returned by IsBomb, by NumberOfNeighborBombs
Call(op, index, label, e, result, again) ==
    [op |-> op, index |-> index, label |-> label, outcome |-> e.outcome,
     result |-> result, again |-> again,
     enq |-> e.enq, enqClosed |-> e.enqClosed, afterHit |-> e.afterHit,
     from |-> state, args |-> <<>>, flag |-> FALSE, number |-> 0]

Changes(old, new) ==
    {i \in DOMAIN old : old[i].isOpened # new[i].isOpened
                        \/ old[i].label # new[i].label}

\* any call needs a game returned by CreateGame whose last call has returned
Callable == last.op # "CMinesweeperGame" /\ last.outcome # "hang"

\* ---- Init: CMinesweeperGame::CMinesweeperGame ----------------------------------
Constructed ==
    /\ state = "MGS_Failure"
    /\ rows = 0
    /\ columns = 0
    /\ bombs = 0
    /\ cells = <<>>
    /\ numberOfOpenedCells = 0
    /\ modifiedCellIndices = {}
    /\ last = Call("CMinesweeperGame", NoIndex, "MCL_None",
                   Exec("MGS_Failure", <<>>, 0, {}), EmptyBag, FALSE)
    /\ changed = {}
    /\ restarted = FALSE

\* ---- actions ---------------------------------------------------------------------
\* reset that leaves the modified set as it is
resetKeepsModified(e) ==
    [e EXCEPT !.state = "MGS_Active", !.numberOfOpenedCells = 0]

\* reset that leaves the state as it is
resetKeepsState(e) ==
    [e EXCEPT !.modifiedCellIndices = {}, !.numberOfOpenedCells = 0]

\* CMinesweeperGame::reset
reset(e) ==
    [e EXCEPT !.state = "MGS_Active", !.modifiedCellIndices = {},
              !.numberOfOpenedCells = 0]

\* The grids plantBombs can leave behind on a fresh Rows x Columns board, for each
\* number of bombs: one grid for every sequence of indices the loop can accept
PlantedBoards ==
    [nBombs \in 0..MaxBombs |->
        LET fresh == [i \in 0..(Rows * Columns - 1) |-> NewCell]
        IN  {plantBombs(fresh, accepted, 1, Rows, Columns).cells :
                accepted \in {a \in [1..nBombs -> 0..(Rows * Columns - 1)] :
                                 plantBombs(fresh, a, 1, Rows, Columns).ok}}]

\* CMinesweeperGame::NewGame(): reset(), a fresh grid, plantBombs()
StartGameOn(boards, op) ==
    \E planted \in boards :
        LET r == reset(Exec(state, cells, numberOfOpenedCells, modifiedCellIndices))
            e == Exec(r.state, planted, r.numberOfOpenedCells, r.modifiedCellIndices)
        IN  /\ state' = e.state
            /\ modifiedCellIndices' = e.modifiedCellIndices
            /\ numberOfOpenedCells' = e.numberOfOpenedCells
            /\ cells' = e.cells
            /\ last' = Call(op, NoIndex, "MCL_None", e, EmptyBag, FALSE)
            /\ changed' = {}
            /\ restarted' = FALSE

StartGame(nBombs, op) == StartGameOn(PlantedBoards[nBombs], op)

\* CreateGame / CMinesweeperGame::NewGame( rows, columns, bombs ) with
\* parameters that pass the three checks (scaled to the model's board)
NewGameParams(nBombs) ==
    /\ last.outcome # "hang"
    /\ rows' = Rows
    /\ columns' = Columns
    /\ bombs' = nBombs
    /\ StartGame(nBombs, "NewGameParams")
    /\ UNCHANGED ops

\* The boards plantBombs can leave on the grid of FloodRows x FloodColumns cells
FloodBoards ==
    LET fresh == [i \in 0..(FloodRows * FloodColumns - 1) |-> NewCell]
    IN  {plantBombs(fresh, accepted, 1, FloodRows, FloodColumns).cells :
            accepted \in {a \in [1..FloodBombs -> 0..(FloodRows * FloodColumns - 1)] :
                             plantBombs(fresh, a, 1, FloodRows, FloodColumns).ok}}

\* CreateGame / CMinesweeperGame::NewGame( rows, columns, bombs ) on that grid
NewGameFlood ==
    /\ last.outcome # "hang"
    /\ rows' = FloodRows
    /\ columns' = FloodColumns
    /\ bombs' = FloodBombs
    /\ StartGameOn(FloodBoards, "NewGameParams")
    /\ UNCHANGED ops

\* static_cast<size_t>( 0.93 * _rows * _columns ): the double product
\* ( 0.93 * _rows ) * _columns truncated.  The double nearest to 0.93 lies above
\* 0.93 by less than 5 * 10^-17, and for _rows, _columns up to 31 the rounded
\* product truncates to the integer part of 93 * _rows * _columns / 100.
BombsLimit(_rows, _columns) == (93 * _rows * _columns) \div 100

\* ValidParameters with the upper limit of the bombs excluded
ValidParametersBelowLimit(_rows, _columns, _bombs) ==
    /\ _rows >= 9 /\ _rows <= 24
    /\ _columns >= 9 /\ _columns <= 30
    /\ _bombs >= 10 /\ _bombs < BombsLimit(_rows, _columns)

\* the three internal_check of CMinesweeperGame::NewGame( _rows, _columns, _bombs )
ValidParameters(_rows, _columns, _bombs) ==
    /\ _rows >= 9 /\ _rows <= 24
    /\ _columns >= 9 /\ _columns <= 30
    /\ _bombs >= 10 /\ _bombs <= BombsLimit(_rows, _columns)

\* the indices the random generator is taken to deliver on a board of the
\* program's size: 0, 1, ..., n - 1 or n - 1, ..., 1, 0 or 1, 0, 1, 0, ...
Draws(n) ==
    {[k \in 1..n |-> k - 1], [k \in 1..n |-> n - k], [k \in 1..n |-> k % 2]}

\* plantBombs on a fresh _rows x _columns grid, for the draws above
BoardsOf(_rows, _columns, _bombs) ==
    LET fresh == [i \in 0..(_rows * _columns - 1) |-> NewCell]
    IN  {plantBombs(fresh, accepted, 1, _rows, _columns).cells :
            accepted \in {a \in Draws(_bombs) :
                             plantBombs(fresh, a, 1, _rows, _columns).ok}}

\* the parameters tried: each limit of the three checks from both sides
EdgeParameters ==
    {<<8, 9, 10>>, <<9, 9, 10>>, <<24, 9, 10>>, <<25, 9, 10>>,
     <<9, 8, 10>>, <<9, 30, 10>>, <<9, 31, 10>>,
     <<9, 9, 9>>, <<9, 9, BombsLimit(9, 9)>>, <<9, 9, BombsLimit(9, 9) + 1>>,
     <<24, 9, BombsLimit(24, 9) + 1>>}

\* the grids of the parameters tried that pass the checks
EdgeBoards ==
    [p \in {q \in EdgeParameters : ValidParameters(q[1], q[2], q[3])}
        |-> BoardsOf(p[1], p[2], p[3])]

\* CMinesweeperGame::NewGame( _rows, _columns, _bombs ) on an existing game or
\* from CreateGame, with the program's own limits
NewGameWith(_rows, _columns, _bombs) ==
    /\ last.outcome # "hang"
    /\ IF ValidParameters(_rows, _columns, _bombs)
       THEN /\ rows' = _rows
            /\ columns' = _columns
            /\ bombs' = _bombs
            /\ \E planted \in EdgeBoards[<<_rows, _columns, _bombs>>] :
                  LET r == reset(Exec(state, cells, numberOfOpenedCells,
                                      modifiedCellIndices))
                      e == Exec(r.state, planted, r.numberOfOpenedCells,
                                r.modifiedCellIndices)
                  IN  /\ state' = e.state
                      /\ modifiedCellIndices' = e.modifiedCellIndices
                      /\ numberOfOpenedCells' = e.numberOfOpenedCells
                      /\ cells' = e.cells
                      /\ last' = [Call("NewGameParams", NoIndex, "MCL_None", e,
                                       EmptyBag, FALSE)
                                    EXCEPT !.args = <<_rows, _columns, _bombs>>]
            /\ changed' = {}
            /\ restarted' = FALSE
       ELSE /\ Callable          \* CreateGame returns no game when NewGame throws
            /\ last' = [Call("NewGameParams", NoIndex, "MCL_None",
                             Exec(state, cells, numberOfOpenedCells,
                                  modifiedCellIndices), EmptyBag, FALSE)
                          EXCEPT !.outcome = "throw",
                                 !.args = <<_rows, _columns, _bombs>>]
            /\ UNCHANGED <<state, rows, columns, bombs, cells, numberOfOpenedCells,
                           modifiedCellIndices, changed, restarted>>
    /\ UNCHANGED ops

\* CMinesweeperGame::NewGame()
NewGame ==
    /\ Callable
    /\ UNCHANGED <<rows, columns, bombs, ops>>
    /\ StartGame(bombs, "NewGame")

\* Close that forgets to clear the label
CloseKeepLabel(e, index) ==
    OnModified([e EXCEPT !.cells[index].isOpened = FALSE], index)

\* Close that notifies only when the cell was opened or labeled
CloseSilent(e, index) ==
    IF e.cells[index].isOpened \/ e.cells[index].label # "MCL_None"
    THEN OnModified([e EXCEPT !.cells[index].isOpened = FALSE,
                              !.cells[index].label = "MCL_None"], index)
    ELSE e

\* CMinesweeperCell::Close
Close(e, index) ==
    OnModified([e EXCEPT !.cells[index].isOpened = FALSE,
                         !.cells[index].label = "MCL_None"], index)

\* CMinesweeperGame::RestartGame: the loop over the cells lo..hi in index order
RECURSIVE closeRange(_, _, _)
closeRange(e, lo, hi) ==
    IF e.outcome # "ok" \/ lo > hi THEN e
    ELSE IF lo = hi THEN Close(e, lo)
    ELSE closeRange(closeRange(e, lo, (lo + hi) \div 2),
                    ((lo + hi) \div 2) + 1, hi)

\* CMinesweeperGame::RestartGame: reset(), then Close() on every cell
RestartGame ==
    /\ Callable
    /\ LET e == closeRange(reset(Exec(state, cells, numberOfOpenedCells,
                                      modifiedCellIndices)),
                           0, Cardinality(DOMAIN cells) - 1)
       IN  /\ state' = e.state
           /\ numberOfOpenedCells' = e.numberOfOpenedCells
           /\ cells' = e.cells
           /\ modifiedCellIndices' = e.modifiedCellIndices
           /\ last' = Call("RestartGame", NoIndex, "MCL_None", e, EmptyBag, FALSE)
    /\ changed' = {}
    /\ restarted' = TRUE
    /\ UNCHANGED <<rows, columns, bombs, ops>>

\* game->Cell( row, column )->Open()
Open(row, column) ==
    /\ Callable
    /\ ops > 0
    /\ row < rows /\ column < columns          \* the checks of Cell()
    /\ LET index == row * columns + column
       IN  \E e \in OnOpen(Exec(state, cells, numberOfOpenedCells,
                                modifiedCellIndices),
                           index, rows, columns, bombs) :
              /\ state' = e.state
              /\ cells' = e.cells
              /\ numberOfOpenedCells' = e.numberOfOpenedCells
              /\ modifiedCellIndices' = e.modifiedCellIndices
              /\ last' = Call("Open", index, "MCL_None", e, EmptyBag, FALSE)
              /\ changed' = changed \cup Changes(cells, e.cells)
    /\ ops' = ops - 1
    /\ UNCHANGED <<rows, columns, bombs, restarted>>

\* SetLabel without the check that the cell is closed
SetLabelExecNoCheck(e, index, newLabel) ==
    IF e.cells[index].label # newLabel
    THEN OnModified([e EXCEPT !.cells[index].label = newLabel], index)
    ELSE e

\* SetLabel that notifies also when the label stays the same
SetLabelExecAlwaysModified(e, index, newLabel) ==
    IF e.cells[index].isOpened THEN [e EXCEPT !.outcome = "throw"]
    ELSE OnModified([e EXCEPT !.cells[index].label = newLabel], index)

\* SetLabel that closes an opened cell instead of failing
SetLabelExecCloses(e, index, newLabel) ==
    IF e.cells[index].isOpened THEN Close(e, index)
    ELSE IF e.cells[index].label # newLabel
    THEN OnModified([e EXCEPT !.cells[index].label = newLabel], index)
    ELSE e

\* CMinesweeperCell::SetLabel
SetLabelExec(e, index, newLabel) ==
    IF e.cells[index].isOpened THEN [e EXCEPT !.outcome = "throw"]
    ELSE IF e.cells[index].label # newLabel
    THEN OnModified([e EXCEPT !.cells[index].label = newLabel], index)
    ELSE e

\* game->Cell( row, column )->SetLabel( newLabel )
SetLabel(row, column, newLabel) ==
    /\ Callable
    /\ ops > 0
    /\ row < rows /\ column < columns
    /\ LET index == row * columns + column
           e == SetLabelExec(Exec(state, cells, numberOfOpenedCells,
                                  modifiedCellIndices), index, newLabel)
       IN  /\ cells' = e.cells
           /\ modifiedCellIndices' = e.modifiedCellIndices
           /\ last' = Call("SetLabel", index, newLabel, e, EmptyBag, FALSE)
           /\ changed' = changed \cup Changes(cells, e.cells)
    /\ ops' = ops - 1
    /\ UNCHANGED <<state, rows, columns, bombs, numberOfOpenedCells, restarted>>

\* the vector built by CMinesweeperGame::ModifiedCells, as a bag of pairs
ModifiedCellsResult(m, cls) ==
    LET pairOf(i) == <<i \div cls, i % cls>>
    IN  [p \in {pairOf(i) : i \in m} |-> Cardinality({i \in m : pairOf(i) = p})]

\* ModifiedCells without modifiedCellIndices.clear()
ModifiedCellsNoClear ==
    /\ Callable
    /\ ops > 0
    /\ last' = Call("ModifiedCells", NoIndex, "MCL_None",
                    Exec(state, cells, numberOfOpenedCells, {}),
                    ModifiedCellsResult(modifiedCellIndices, columns),
                    last.op = "ModifiedCells")
    /\ ops' = ops - 1
    /\ changed' = {}
    /\ restarted' = FALSE
    /\ UNCHANGED <<state, rows, columns, bombs, cells, numberOfOpenedCells,
                   modifiedCellIndices>>

\* CMinesweeperGame::ModifiedCells
ModifiedCells ==
    /\ Callable
    /\ ops > 0
    /\ last' = Call("ModifiedCells", NoIndex, "MCL_None",
                    Exec(state, cells, numberOfOpenedCells, {}),
                    ModifiedCellsResult(modifiedCellIndices, columns),
                    last.op = "ModifiedCells")
    /\ modifiedCellIndices' = {}
    /\ ops' = ops - 1
    /\ changed' = {}
    /\ restarted' = FALSE
    /\ UNCHANGED <<state, rows, columns, bombs, cells, numberOfOpenedCells>>

\* CMinesweeperCell::IsBomb
IsBomb(cell) ==
    IF ~cell.isOpened THEN [outcome |-> "throw", result |-> FALSE]
    ELSE [outcome |-> "ok", result |-> cell.isBomb]

\* NumberOfNeighborBombs that only requires the cell to be opened
NumberOfNeighborBombsOfOpened(cell) ==
    IF IsBomb(cell).outcome # "ok" THEN [outcome |-> "throw", result |-> 0]
    ELSE [outcome |-> "ok", result |-> cell.numberOfNeighborBombs]

\* CMinesweeperCell::NumberOfNeighborBombs
NumberOfNeighborBombs(cell) ==
    IF IsBomb(cell).outcome # "ok" THEN [outcome |-> "throw", result |-> 0]
    ELSE IF IsBomb(cell).result THEN [outcome |-> "throw", result |-> 0]
    ELSE [outcome |-> "ok", result |-> cell.numberOfNeighborBombs]

\* game->Cell( row, column )->IsBomb()
CellIsBomb(row, column) ==
    /\ Callable
    /\ ops > 0
    /\ row < rows /\ column < columns
    /\ LET index == row * columns + column
           q == IsBomb(cells[index])
       IN  last' = [Call("IsBomb", index, "MCL_None",
                         Exec(state, cells, numberOfOpenedCells,
                              modifiedCellIndices), EmptyBag, FALSE)
                      EXCEPT !.outcome = q.outcome, !.flag = q.result]
    /\ ops' = ops - 1
    /\ UNCHANGED <<state, rows, columns, bombs, cells, numberOfOpenedCells,
                   modifiedCellIndices, changed, restarted>>

\* game->Cell( row, column )->NumberOfNeighborBombs()
CellNumberOfNeighborBombs(row, column) ==
    /\ Callable
    /\ ops > 0
    /\ row < rows /\ column < columns
    /\ LET index == row * columns + column
           q == NumberOfNeighborBombs(cells[index])
       IN  last' = [Call("NumberOfNeighborBombs", index, "MCL_None",
                         Exec(state, cells, numberOfOpenedCells,
                              modifiedCellIndices), EmptyBag, FALSE)
                      EXCEPT !.outcome = q.outcome, !.number = q.result]
    /\ ops' = ops - 1
    /\ UNCHANGED <<state, rows, columns, bombs, cells, numberOfOpenedCells,
                   modifiedCellIndices, changed, restarted>>

Init == Constructed /\ ops = MaxOps

Next ==
    \/ \E nBombs \in 1..MaxBombs : NewGameParams(nBombs)
    \/ NewGame
    \/ RestartGame
    \/ \E row \in 0..(Rows - 1), column \in 0..(Columns - 1) : Open(row, column)
    \/ \E row \in 0..(Rows - 1), column \in 0..(Columns - 1),
          newLabel \in TMinesweeperCellLabel : SetLabel(row, column, newLabel)
    \/ ModifiedCells

Spec == Init /\ [][Next]_vars

\* Every call, deeper, on the boards with one bomb
InitOneBomb == Constructed /\ ops = DeepOps

NextOneBomb ==
    \/ NewGameParams(1)
    \/ NewGame
    \/ RestartGame
    \/ \E row \in 0..(Rows - 1), column \in 0..(Columns - 1) : Open(row, column)
    \/ \E row \in 0..(Rows - 1), column \in 0..(Columns - 1),
          newLabel \in TMinesweeperCellLabel : SetLabel(row, column, newLabel)
    \/ ModifiedCells

SpecOneBomb == InitOneBomb /\ [][NextOneBomb]_vars

\* Rounds in which the player never labels a cell, deeper, on every board
InitNoLabel == Constructed /\ ops = OpenOps

NextNoLabel ==
    \/ \E nBombs \in 1..MaxBombs : NewGameParams(nBombs)
    \/ NewGame
    \/ RestartGame
    \/ \E row \in 0..(Rows - 1), column \in 0..(Columns - 1) : Open(row, column)
    \/ ModifiedCells

SpecNoLabel == InitNoLabel /\ [][NextNoLabel]_vars

\* NewGame( rows, columns, bombs ) with parameters at, below and above each
\* limit of the program, on games in play
NextParams ==
    \/ \E p \in EdgeParameters : NewGameWith(p[1], p[2], p[3])
    \/ RestartGame
    \/ \E row \in 0..(Rows - 1), column \in 0..(Columns - 1) : Open(row, column)
    \/ \E row \in 0..(Rows - 1), column \in 0..(Columns - 1),
          newLabel \in TMinesweeperCellLabel : SetLabel(row, column, newLabel)
    \/ ModifiedCells

InitParams == Constructed /\ ops = ParamOps

SpecParams == InitParams /\ [][NextParams]_vars

\* The queries of a cell, between the calls that change the game
NextQueries ==
    \/ \E nBombs \in 1..MaxBombs : NewGameParams(nBombs)
    \/ RestartGame
    \/ \E row \in 0..(Rows - 1), column \in 0..(Columns - 1) : Open(row, column)
    \/ \E row \in 0..(Rows - 1), column \in 0..(Columns - 1),
          newLabel \in TMinesweeperCellLabel : SetLabel(row, column, newLabel)
    \/ \E row \in 0..(Rows - 1), column \in 0..(Columns - 1) :
          CellIsBomb(row, column)
    \/ \E row \in 0..(Rows - 1), column \in 0..(Columns - 1) :
          CellNumberOfNeighborBombs(row, column)

SpecQueries == Init /\ [][NextQueries]_vars

\* Open and SetLabel on the larger grid, where the worklist of openNeighbors
\* holds several indices at once
InitFlood == Constructed /\ ops = FloodOps

NextFlood ==
    \/ NewGameFlood
    \/ \E row \in 0..(FloodRows - 1), column \in 0..(FloodColumns - 1) :
          Open(row, column)
    \/ \E row \in 0..(FloodRows - 1), column \in 0..(FloodColumns - 1),
          newLabel \in TMinesweeperCellLabel : SetLabel(row, column, newLabel)

SpecFlood == InitFlood /\ [][NextFlood]_vars

\* ---- vocabulary of the properties ---------------------------------------------
Indices == DOMAIN cells

Mines == {i \in Indices : cells[i].isBomb}

Opened == {i \in Indices : cells[i].isOpened}

Abs(x) == IF x < 0 THEN 0 - x ELSE x

\* cells i and j touch horizontally, vertically or diagonally on the grid
Adjacent(i, j) ==
    /\ i # j
    /\ Abs((i \div columns) - (j \div columns)) <= 1
    /\ Abs((i % columns) - (j % columns)) <= 1

GameStarted == last.op \in {"NewGameParams", "NewGame"} /\ last.outcome = "ok"

\* the step is a returned or failed call of the cell / drain operation op
CallOf(op) == ops' = ops - 1 /\ last'.op = op

\* C1: after a successful NewGame exactly `bombs` cells of the grid are mines
C1_ExactlyBombsMines ==
    GameStarted => Cardinality(Mines) = bombs

\* C2: after a successful NewGame every non-mine cell stores the number of
\* mine cells among its grid-adjacent cells
C2_NeighborCountsExact ==
    GameStarted =>
        \A i \in Indices :
            ~cells[i].isBomb =>
                cells[i].numberOfNeighborBombs
                    = Cardinality({j \in Mines : Adjacent(i, j)})

\* C3: when an Open call returns with openedCount = rows*columns - mines and no
\* mine opened, the state is Success
C3_SuccessWhenAllSafeOpened ==
    (/\ last.op = "Open"
     /\ last.outcome = "ok"
     /\ numberOfOpenedCells = rows * columns - bombs
     /\ Mines \cap Opened = {})
        => state = "MGS_Success"

\* C4: Open on a closed cell labeled Mine or Question changes no cell, not
\* openedCount, not the state and not the modified set
C4_OpenLabeledChangesNothing ==
    [][(/\ CallOf("Open")
        /\ ~cells[last'.index].isOpened
        /\ cells[last'.index].label # "MCL_None")
          => ( /\ last'.outcome = "ok"
               /\ UNCHANGED <<cells, numberOfOpenedCells, state,
                              modifiedCellIndices>> )]_vars

\* C5: every call of openNeighbors terminates (the claim adds: and no index is put
\* on the worklist twice); stated here as: no Open call runs forever
C5_OpenNeighborsTerminates ==
    last.outcome # "hang"

Terminal == {"MGS_Failure", "MGS_Success"}

\* C6: Open in Active state on a closed, unlabeled mine cell ends in Failure with
\* every mine opened, and in every state with state = Failure all mines are opened
C6_FailureOpensEveryMine ==
    /\ [](state = "MGS_Failure" => Mines \subseteq Opened)
    /\ [][(/\ CallOf("Open")
           /\ state = "MGS_Active"
           /\ ~cells[last'.index].isOpened
           /\ cells[last'.index].label = "MCL_None"
           /\ cells[last'.index].isBomb)
             => ( /\ state' = "MGS_Failure"
                  /\ \A i \in Indices : cells[i].isBomb => cells'[i].isOpened )]_vars

C6_Witness ==
    /\ last.op = "Open"
    /\ last.outcome = "ok"
    /\ state = "MGS_Failure"
    /\ cells[last.index].isBomb
    /\ Cardinality(Mines) >= 2
    /\ Mines \subseteq Opened

\* the 8-connected region of safe cells with a stored count of zero around S
RECURSIVE ZeroRegion(_)
ZeroRegion(S) ==
    LET T == S \cup {j \in Indices :
                        /\ ~cells[j].isBomb
                        /\ cells[j].numberOfNeighborBombs = 0
                        /\ \E k \in S : Adjacent(j, k)}
    IN  IF T = S THEN S ELSE ZeroRegion(T)

RegionWithBorder(i) ==
    ZeroRegion({i}) \cup {j \in Indices : \E k \in ZeroRegion({i}) : Adjacent(j, k)}

\* C7: on a board without labels, Open on a closed safe cell with a stored count
\* of zero opens exactly its zero-count region and the cells adjacent to the
\* region, and no mine
C7_FloodOpensRegionAndBorder ==
    [][(/\ CallOf("Open")
        /\ state = "MGS_Active"
        /\ \A i \in Indices : cells[i].label = "MCL_None"
        /\ ~cells[last'.index].isOpened
        /\ ~cells[last'.index].isBomb
        /\ cells[last'.index].numberOfNeighborBombs = 0)
          => ( /\ OpenedSet(cells') = Opened \cup RegionWithBorder(last'.index)
               /\ \A i \in Indices : cells[i].isBomb => ~cells'[i].isOpened )]_vars

\* C8: once the state is Failure or Success every Open fails and changes nothing,
\* and only NewGame and RestartGame change the state
C8_TerminalStatesAreTerminal ==
    [][(state \in Terminal) =>
          ((CallOf("Open") =>
               (last'.outcome = "throw"
                /\ UNCHANGED <<cells, numberOfOpenedCells, state, modifiedCellIndices>>))
           /\ ((state' # state) =>
               (last'.op \in {"NewGameParams", "NewGame", "RestartGame"}
                /\ state' = "MGS_Active")))]_vars

C8_Witness ==
    /\ state = "MGS_Success"
    /\ last.op = "Open"
    /\ last.outcome = "throw"

\* the coordinates Cell( row, column ) gives the cells of S, each once
CoordinatesOnce(S) ==
    [p \in {<<row, column>> \in (0..(rows - 1)) \X (0..(columns - 1)) :
               row * columns + column \in S} |-> 1]

\* C9: a drain returns, exactly once each and with nothing else, the coordinates
\* of the cells whose opened flag or label was changed by Open or SetLabel since
\* the previous drain (or since NewGame)
C9_DrainReturnsChangedCells ==
    [][(CallOf("ModifiedCells") /\ ~restarted)
          => last'.result = CoordinatesOnce(changed)]_vars

\* C10: a drain directly after a drain returns nothing, and a drain changes only
\* the modified set
C10_DrainTwiceIsEmpty ==
    [][CallOf("ModifiedCells") =>
          (last'.outcome = "ok"
           /\ UNCHANGED <<cells, numberOfOpenedCells, state, rows, columns, bombs>>
           /\ (last.op = "ModifiedCells" => last'.result = EmptyBag))]_vars

C10_Witness ==
    /\ last.op = "ModifiedCells"
    /\ last.again
    /\ last.result = EmptyBag
    /\ Opened # {}

\* C11: RestartGame, in any state, keeps the mine cells and every stored neighbor
\* count and leaves every cell closed with label None, openedCount = 0 and the
\* state Active
C11_RestartKeepsLayout ==
    [][(last'.op = "RestartGame" /\ ops' = ops)
          => ( /\ last'.outcome = "ok"
               /\ DOMAIN cells' = DOMAIN cells
               /\ \A i \in Indices :
                      /\ cells'[i].isBomb = cells[i].isBomb
                      /\ cells'[i].numberOfNeighborBombs
                            = cells[i].numberOfNeighborBombs
                      /\ ~cells'[i].isOpened
                      /\ cells'[i].label = "MCL_None"
               /\ numberOfOpenedCells' = 0
               /\ state' = "MGS_Active"
               /\ UNCHANGED <<rows, columns, bombs>> )]_vars

C11_Witness ==
    /\ last.op = "RestartGame"
    /\ last.from = "MGS_Success"
    /\ state = "MGS_Active"
    /\ Mines # {}
    /\ Opened = {}

\* C12: directly after RestartGame the modified set is the set of all
\* rows*columns indices, and the next drain returns every cell exactly once
C12_RestartReportsEveryCell ==
    /\ [](last.op = "RestartGame"
            => modifiedCellIndices = 0..(rows * columns - 1))
    /\ [][(CallOf("ModifiedCells") /\ last.op = "RestartGame")
            => last'.result = CoordinatesOnce(0..(rows * columns - 1))]_vars

C12_Witness ==
    /\ last.op = "RestartGame"
    /\ last.from = "MGS_Failure"
    /\ modifiedCellIndices = Indices
    /\ Cardinality(Indices) = rows * columns
    /\ ops > 0

\* C13: NewGame(rows, columns, mines) succeeds exactly when 9 <= rows <= 24,
\* 9 <= columns <= 30 and 10 <= mines <= floor(0.93 * rows * columns); otherwise
\* it fails and leaves rows, columns, mines, the grid, openedCount, the state and
\* the modified set as they were
C13_NewGameValidatesParameters ==
    [][(last'.op = "NewGameParams" /\ last'.args # <<>> /\ last' # last)
          => LET r == last'.args[1]
                 c == last'.args[2]
                 b == last'.args[3]
                 inRange == /\ 9 <= r /\ r <= 24
                            /\ 9 <= c /\ c <= 30
                            /\ 10 <= b /\ 100 * b <= 93 * r * c
             IN  /\ (last'.outcome = "ok") <=> inRange
                 /\ last'.outcome = "ok" =>
                       (rows' = r /\ columns' = c /\ bombs' = b
                        /\ state' = "MGS_Active"
                        /\ DOMAIN cells' = 0..(r * c - 1))
                 /\ last'.outcome # "ok" =>
                       UNCHANGED <<rows, columns, bombs, cells, numberOfOpenedCells,
                                   state, modifiedCellIndices>>]_vars

C13_Witness ==
    /\ last.op = "NewGameParams"
    /\ last.outcome = "throw"
    /\ last.args = <<rows, columns, BombsLimit(rows, columns) + 1>>
    /\ Opened # {}
    /\ modifiedCellIndices # {}

\* the closed neighbors of cell i that are labeled Mine
FlaggedNeighbors(i) ==
    {j \in Indices : Adjacent(i, j) /\ ~cells[j].isOpened
                     /\ cells[j].label = "MCL_Bomb"}

\* C14: Open on an opened cell: when the number of its closed neighbors labeled
\* Mine differs from its stored count nothing changes; when they are equal and
\* the call returns, every closed unlabeled neighbor has been opened or a mine
\* was opened and the state is Failure
C14_ChordOpensNeighbors ==
    [][(CallOf("Open") /\ cells[last'.index].isOpened)
          => IF Cardinality(FlaggedNeighbors(last'.index))
                  # cells[last'.index].numberOfNeighborBombs
             THEN UNCHANGED <<cells, numberOfOpenedCells, state,
                              modifiedCellIndices>>
             ELSE last'.outcome = "ok" =>
                    ( \/ \A j \in Indices :
                            (Adjacent(last'.index, j) /\ ~cells[j].isOpened
                             /\ cells[j].label = "MCL_None")
                                => cells'[j].isOpened
                      \/ /\ state' = "MGS_Failure"
                         /\ \E j \in Indices :
                               cells[j].isBomb /\ ~cells[j].isOpened
                               /\ cells'[j].isOpened )]_vars

\* a chord on a safe cell whose neighbor was flagged wrongly opened the mine
C14_Witness ==
    /\ last.op = "Open"
    /\ last.outcome = "ok"
    /\ cells[last.index].isOpened
    /\ ~cells[last.index].isBomb
    /\ state = "MGS_Failure"
    /\ \E j \in Indices : cells[j].label = "MCL_Bomb" /\ ~cells[j].isBomb

\* C15: in every reachable state no cell is both opened and labeled
C15_OpenedCellsAreUnlabeled ==
    \A i \in Indices : cells[i].isOpened => cells[i].label = "MCL_None"

\* C16: while Open and SetLabel are called only in Active state, SetLabel only on
\* closed cells and cells only with coordinates in range, no internal check
\* fails: openedCount never exceeds rows*columns - mines and no Open made in
\* Active state throws
C16_NoInternalCheckFails ==
    /\ numberOfOpenedCells <= rows * columns - bombs
    /\ ~(last.op = "Open" /\ last.from = "MGS_Active" /\ last.outcome = "throw")

\* C17: SetLabel on an opened cell fails and changes no cell, not openedCount,
\* not the state and not the modified set
C17_SetLabelOnOpenedFails ==
    [][(CallOf("SetLabel") /\ cells[last'.index].isOpened)
          => ( /\ last'.outcome = "throw"
               /\ UNCHANGED <<cells, numberOfOpenedCells, state,
                              modifiedCellIndices>> )]_vars

C17_Witness ==
    /\ last.op = "SetLabel"
    /\ last.outcome = "throw"
    /\ state = "MGS_Active"
    /\ cells[last.index].isOpened
    /\ last.label # "MCL_None"

\* C18: in Active state SetLabel on a closed cell with another label sets the
\* label and adds that index, and no other, to the modified set; with the label
\* the cell has it changes nothing; no opened flag, openedCount or state changes
C18_SetLabelNotifiesOnChange ==
    [][(CallOf("SetLabel") /\ state = "MGS_Active" /\ ~cells[last'.index].isOpened)
          => ( /\ last'.outcome = "ok"
               /\ IF cells[last'.index].label # last'.label
                  THEN /\ cells' = [cells EXCEPT ![last'.index].label = last'.label]
                       /\ modifiedCellIndices'
                            = modifiedCellIndices \cup {last'.index}
                  ELSE UNCHANGED <<cells, modifiedCellIndices>>
               /\ UNCHANGED <<numberOfOpenedCells, state>> )]_vars

C18_Witness ==
    /\ last.op = "SetLabel"
    /\ last.outcome = "ok"
    /\ state = "MGS_Active"
    /\ last.label = "MCL_Question"
    /\ cells[last.index].label = "MCL_Question"
    /\ modifiedCellIndices = {last.index}

\* C19: IsBomb fails exactly on a closed cell, NumberOfNeighborBombs succeeds
\* exactly on an opened cell that is not a mine; when they succeed they return
\* the stored flag and the stored count, and they change nothing
C19_QueriesNeedOpenedCell ==
    [][( /\ CallOf("IsBomb") =>
              ( /\ (last'.outcome = "throw") <=> ~cells[last'.index].isOpened
                /\ last'.outcome = "ok" => last'.flag = cells[last'.index].isBomb )
         /\ CallOf("NumberOfNeighborBombs") =>
              ( /\ (last'.outcome = "ok") <=>
                      (cells[last'.index].isOpened /\ ~cells[last'.index].isBomb)
                /\ last'.outcome = "ok" =>
                      last'.number = cells[last'.index].numberOfNeighborBombs )
         /\ (CallOf("IsBomb") \/ CallOf("NumberOfNeighborBombs")) =>
              UNCHANGED <<state, rows, columns, bombs, cells, numberOfOpenedCells,
                          modifiedCellIndices>> )]_vars

C19_Witness ==
    /\ last.op = "NumberOfNeighborBombs"
    /\ last.outcome = "throw"
    /\ cells[last.index].isOpened
    /\ cells[last.index].isBomb

\* C20: no Open, SetLabel or drain call closes an opened cell
C20_OpenedStaysOpened ==
    [][(CallOf("Open") \/ CallOf("SetLabel") \/ CallOf("ModifiedCells"))
          => \A i \in Indices : cells[i].isOpened => cells'[i].isOpened]_vars

C20_Witness ==
    /\ last.op = "SetLabel"
    /\ last.outcome = "ok"
    /\ state = "MGS_Active"
    /\ Cardinality(Opened) >= 2

\* C21: in every reachable state every stored neighbor count lies in 0..8
C21_NeighborCountAtMostEight ==
    \A i \in Indices : cells[i].numberOfNeighborBombs \in 0..8

\* C22: in every reachable state openedCount is the number of cells that are
\* opened and are not mines
C22_OpenedCountCountsSafeCells ==
    numberOfOpenedCells = Cardinality(Opened \ Mines)

C22_Witness ==
    /\ state = "MGS_Failure"
    /\ numberOfOpenedCells >= 2
    /\ Mines \cap Opened # {}
    /\ last.op = "Open"

\* C23: openNeighbors puts on its worklist only cells that are opened: an Open on
\* a cell without label never enqueues a cell that is still closed
C23_OnlyOpenedCellsEnqueued ==
    [][(CallOf("Open") /\ cells[last'.index].label = "MCL_None")
          => ~last'.enqClosed]_vars

\* C24: when a mine is opened during an Open call, no cell that is not a mine is
\* opened after it in the same call
C24_NothingOpenedAfterMine ==
    last.op = "Open" => ~last.afterHit

\* a chord opened a mine and left a closed, unlabeled safe neighbor closed
C24_Witness ==
    /\ last.op = "Open"
    /\ last.outcome = "ok"
    /\ state = "MGS_Failure"
    /\ cells[last.index].isOpened
    /\ ~cells[last.index].isBomb
    /\ \E j \in Indices :
          /\ Adjacent(last.index, j)
          /\ ~cells[j].isOpened
          /\ ~cells[j].isBomb
          /\ cells[j].label = "MCL_None"

\* C25: in Active state Open on a closed, unlabeled cell that is not a mine and
\* has a stored count above zero opens that one cell: openedCount grows by one,
\* only that index joins the modified set, nothing else changes in any cell, and
\* the state is Success when openedCount is now rows*columns - mines and Active
\* otherwise
C25_OpenNumberedCellOpensOne ==
    [][(/\ CallOf("Open")
        /\ state = "MGS_Active"
        /\ ~cells[last'.index].isOpened
        /\ cells[last'.index].label = "MCL_None"
        /\ ~cells[last'.index].isBomb
        /\ cells[last'.index].numberOfNeighborBombs > 0)
          => ( /\ cells' = [cells EXCEPT ![last'.index].isOpened = TRUE]
               /\ numberOfOpenedCells' = numberOfOpenedCells + 1
               /\ modifiedCellIndices' = modifiedCellIndices \cup {last'.index}
               /\ state' = IF numberOfOpenedCells' = rows * columns - bombs
                           THEN "MGS_Success" ELSE "MGS_Active" )]_vars

C25_Witness ==
    /\ last.op = "Open"
    /\ last.outcome = "ok"
    /\ state = "MGS_Success"
    /\ cells[last.index].isOpened
    /\ ~cells[last.index].isBomb
    /\ cells[last.index].numberOfNeighborBombs > 0
    /\ \A i \in Indices : cells[i].label = "MCL_None"

\* C26: no Open, SetLabel, drain or RestartGame changes which cells are mines or
\* any stored neighbor count: they stay the same until the next NewGame
C26_LayoutFixedForTheRound ==
    [][(last'.op \notin {"NewGameParams", "NewGame"})
          => ( /\ DOMAIN cells' = DOMAIN cells
               /\ \A i \in Indices :
                     /\ cells'[i].isBomb = cells[i].isBomb
                     /\ cells'[i].numberOfNeighborBombs
                           = cells[i].numberOfNeighborBombs )]_vars

C26_Witness ==
    /\ last.op = "ModifiedCells"
    /\ Mines # {}
    /\ Opened # {}
    /\ \E i \in Indices : cells[i].label # "MCL_None"

\* C27: in every reachable state every mine cell has a stored count of zero
C27_MineCellsStoreZero ==
    \A i \in Indices : cells[i].isBomb => cells[i].numberOfNeighborBombs = 0

\* a planting went over a cell that already had a count, and cleared a mine
C27_Witness ==
    /\ GameStarted
    /\ bombs = 2
    /\ Cardinality(Mines) = 1
    /\ \E i \in Indices : cells[i].numberOfNeighborBombs = 2

\* C28: after NewGame() returns, from any state, the state is Active, openedCount
\* is 0, the modified set is empty, the grid has the rows*columns indices and
\* every cell is closed with label None
C28_NewGameStartsFresh ==
    [][(last'.op \in {"NewGame", "NewGameParams"} /\ last'.outcome = "ok")
          => ( /\ state' = "MGS_Active"
               /\ numberOfOpenedCells' = 0
               /\ modifiedCellIndices' = {}
               /\ DOMAIN cells' = 0..(rows' * columns' - 1)
               /\ \A i \in DOMAIN cells' :
                     ~cells'[i].isOpened /\ cells'[i].label = "MCL_None" )]_vars

C28_Witness ==
    /\ last.op = "NewGame"
    /\ last.from = "MGS_Failure"
    /\ state = "MGS_Active"
    /\ Cardinality(Indices) = rows * columns
    /\ ops = 0

\* C29: the cells, openedCount, the state and the modified set an Open call
\* ends with are the same whatever order openNeighbors pops its worklist in:
\* every run of the call from the board before it ends as the observed run did
C29_OpenIndependentOfPopOrder ==
    [][(CallOf("Open") /\ last'.outcome # "hang")
          => \A e \in OnOpen(Exec(state, cells, numberOfOpenedCells,
                                  modifiedCellIndices),
                             last'.index, rows, columns, bombs) :
                /\ e.outcome = last'.outcome
                /\ e.cells = cells'
                /\ e.numberOfOpenedCells = numberOfOpenedCells'
                /\ e.state = state'
                /\ e.modifiedCellIndices = modifiedCellIndices']_vars

\* two neighbors of the opened cell waited in the worklist together
C29_Witness ==
    /\ last.op = "Open"
    /\ last.outcome = "ok"
    /\ \A i \in Indices : cells[i].label = "MCL_None"
    /\ \E j, k \in Indices :
          /\ j # k
          /\ Adjacent(last.index, j) /\ Adjacent(last.index, k)
          /\ last.enq[j] >= 1 /\ last.enq[k] >= 1
          /\ Cardinality(Opened) > 4

\* C30: in Failure or Success state SetLabel on a closed cell with another label
\* fails and leaves the label of the cell as it was
C30_SetLabelAfterEndChangesNothing ==
    [][(/\ CallOf("SetLabel")
        /\ state \in Terminal
        /\ ~cells[last'.index].isOpened
        /\ cells[last'.index].label # last'.label)
          => ( /\ last'.outcome = "throw"
               /\ cells'[last'.index].label = cells[last'.index].label )]_vars

\* C31: in Active state Open on a closed, unlabeled cell that is not a mine never
\* ends the round in Failure, whatever the layout of the mines and the labels of
\* the other cells: the flood started from that cell opens no mine
C31_SafeOpenNeverFails ==
    [][(/\ CallOf("Open")
        /\ state = "MGS_Active"
        /\ ~cells[last'.index].isOpened
        /\ cells[last'.index].label = "MCL_None"
        /\ ~cells[last'.index].isBomb)
          => ( /\ state' # "MGS_Failure"
               /\ \A i \in Indices : cells'[i].isBomb => ~cells'[i].isOpened )]_vars

\* a flood from a safe cell, on a board with a labeled cell, that left a mine closed
C31_Witness ==
    /\ last.op = "Open"
    /\ last.from = "MGS_Active"
    /\ last.outcome = "ok"
    /\ state = "MGS_Active"
    /\ cells[last.index].isOpened
    /\ cells[last.index].numberOfNeighborBombs = 0
    /\ Cardinality(Opened) >= 3
    /\ Mines # {}
    /\ \E i \in Indices : cells[i].label # "MCL_None"

\* C32: in every state of a game that CreateGame returned the state is Failure
\* exactly when a mine cell is opened; no mine cell is opened in Active or
\* Success state
C32_FailureIffMineOpened ==
    (last.op # "CMinesweeperGame")
        => ((state = "MGS_Failure") <=> (Mines \cap Opened # {}))

\* a lost round was restarted: the mines are closed again and the state is Active
C32_Witness ==
    /\ last.op = "RestartGame"
    /\ last.from = "MGS_Failure"
    /\ last.outcome = "ok"
    /\ state = "MGS_Active"
    /\ Mines # {}
    /\ Mines \cap Opened = {}

\* C33: after planting no two mine cells are adjacent (in a row, in a column or
\* diagonally), whatever indices were drawn
C33_NoAdjacentMines ==
    \A i \in Mines, j \in Mines : ~Adjacent(i, j)

\* a board that kept two mines
C33_Witness ==
    /\ GameStarted
    /\ bombs = 2
    /\ Cardinality(Mines) = 2
    /\ \A i \in Indices : cells[i].numberOfNeighborBombs <= 2

====
